---------------------------- MODULE Spec2Model ----------------------------
(***************************************************************************)
(* A model of scraper_logic.py: the profile field extraction, the          *)
(* repository merge and the daily-fighter rotation.                        *)
(*                                                                         *)
(* Program strings are sequences of one-character strings, so that         *)
(* normalize, split, strip and int() are computed the way the code         *)
(* computes them.  Python dicts are functions whose DOMAIN is the set of   *)
(* keys present; the empty dict is the empty function.  None is the        *)
(* one-element sequence <<"None">>, which no character sequence equals.    *)
(***************************************************************************)
EXTENDS Integers, Sequences, FiniteSets, TLC

VARIABLES
    dailyFighter,   \* game_data["daily_fighter"]: a dict, {} before the first pick
    pastFighters,   \* game_data["past_fighters"]: a list of names
    fighterData,    \* game_data["fighter_data"]: dict name -> record dict
    dailyShared,    \* TRUE while daily_fighter IS the dict object stored in fighter_data
    calls,          \* select_daily_fighter calls made in a row (capped at MaxCalls)
    last            \* what the last operation did (observation only, never read by an action)

vars == <<dailyFighter, pastFighters, fighterData, dailyShared, calls, last>>

-----------------------------------------------------------------------------
(* Bounds of the model.                                                    *)

\* number of distinct athlete names the rankings page can list
NumNames == 2
\* longest rankings list scrape_rankings returns
MaxRoster == 2
\* pool size of the long-rotation scenario (more names than PAST_DAYS_LIMIT)
LongPool == 8
\* consecutive select_daily_fighter calls counted by "calls"
MaxCalls == 4

(* Program constants.                                                      *)
PAST_DAYS_LIMIT == 7

None == <<"None">>
EmptyDict == <<>>

-----------------------------------------------------------------------------
(* Characters and strings.                                                 *)

UpperCase == <<"A","B","C","D","E","F","G","H","I","J","K","L","M",
               "N","O","P","Q","R","S","T","U","V","W","X","Y","Z">>
LowerCase == <<"a","b","c","d","e","f","g","h","i","j","k","l","m",
               "n","o","p","q","r","s","t","u","v","w","x","y","z">>
Digits == <<"0","1","2","3","4","5","6","7","8","9">>
Whitespace == {" "}

Range(s) == {s[i] : i \in DOMAIN s}

IndexIn(c, alphabet) == CHOOSE i \in DOMAIN alphabet : alphabet[i] = c

\* str.lower() on one character
LowerChar(c) == IF \E i \in DOMAIN UpperCase : UpperCase[i] = c
                THEN LowerCase[IndexIn(c, UpperCase)] ELSE c

\* str.lower()
Lower(s) == [i \in DOMAIN s |-> LowerChar(s[i])]

IsLowerAlpha(c) == \E i \in DOMAIN LowerCase : LowerCase[i] = c

\* normalize: re.sub(r"[^a-z]", "", text.lower())
normalize(text) == SelectSeq(Lower(text), IsLowerAlpha)

\* str.strip(): drop leading and trailing whitespace
RECURSIVE LStrip(_)
LStrip(s) == IF s # <<>> /\ Head(s) \in Whitespace THEN LStrip(Tail(s)) ELSE s

RECURSIVE RStrip(_)
RStrip(s) == IF s # <<>> /\ s[Len(s)] \in Whitespace
             THEN RStrip(SubSeq(s, 1, Len(s) - 1)) ELSE s

Strip(s) == RStrip(LStrip(s))

\* str.split(sep) for a one-character sep: always at least one part, empty parts kept
RECURSIVE SplitOn(_, _)
SplitOn(s, sep) ==
    IF \A i \in DOMAIN s : s[i] # sep
    THEN <<s>>
    ELSE LET k == CHOOSE i \in DOMAIN s : s[i] = sep /\ \A j \in 1..(i-1) : s[j] # sep
         IN <<SubSeq(s, 1, k - 1)>> \o SplitOn(SubSeq(s, k + 1, Len(s)), sep)

IsNonEmpty(p) == p # <<>>

\* str.split() with no argument: split on runs of whitespace, no empty parts
SplitWords(s) == SelectSeq(SplitOn(s, " "), IsNonEmpty)

\* p in s, for strings: p occurs as a contiguous substring of s
IsSubstring(p, s) ==
    \E k \in 0..(Len(s) - Len(p)) : \A i \in 1..Len(p) : s[k + i] = p[i]

\* int(text) for base-10 text: [ok |-> FALSE] is ValueError

RECURSIVE DigitsValue(_)
DigitsValue(s) == IF s = <<>> THEN 0
                  ELSE 10 * DigitsValue(SubSeq(s, 1, Len(s) - 1))
                       + (IndexIn(s[Len(s)], Digits) - 1)

ParseInt(text) ==
    LET t == Strip(text)
        signed == t # <<>> /\ Head(t) \in {"+", "-"}
        body == IF signed THEN Tail(t) ELSE t
    IN IF body = <<>> \/ \E i \in DOMAIN body : body[i] \notin Range(Digits)
       THEN [ok |-> FALSE, val |-> 0]
       ELSE [ok |-> TRUE,
             val |-> IF Head(t) = "-" THEN 0 - DigitsValue(body) ELSE DigitsValue(body)]

\* The literals of the code.
NA == <<"N","/","A">>
Dash == <<"-">>
EmptyStr == <<>>

\* Python truthiness of a value that is None, a string or a dict
Truthy(v) == v # None /\ v # <<>>

-----------------------------------------------------------------------------
(* Utilities.                                                              *)

\* time_to_seconds
time_to_seconds(time_str) ==
    IF ~Truthy(time_str) \/ Strip(time_str) \in {NA, Dash, EmptyStr}
    THEN 0
    ELSE LET parts == SplitOn(Strip(time_str), ":")
         IN IF Len(parts) # 2
            THEN 0
            ELSE LET minutes == ParseInt(parts[1])
                     seconds == ParseInt(parts[2])
                 IN IF ~minutes.ok \/ ~seconds.ok
                    THEN 0
                    ELSE minutes.val * 60 + seconds.val

\* filename_matches_fighter
filename_matches_fighter(url, fighter_name) ==
    IF ~Truthy(url)
    THEN FALSE
    ELSE LET segs == SplitOn(url, "/")
             fname == normalize(segs[Len(segs)])
             parts == SplitWords(fighter_name)
         IN \A i \in DOMAIN parts : IsSubstring(normalize(parts[i]), fname)

-----------------------------------------------------------------------------
(* Dicts.                                                                  *)

\* d.get(k)
Get(d, k) == IF k \in DOMAIN d THEN d[k] ELSE None

\* d.update(u): the keys of u are set, the other keys of d are kept
Update(d, u) == [k \in (DOMAIN d) \cup (DOMAIN u) |-> IF k \in DOMAIN u THEN u[k] ELSE d[k]]

\* d[k] = v on a dict of dicts
Store(d, k, v) == [x \in (DOMAIN d) \cup {k} |-> IF x = k THEN v ELSE d[x]]

-----------------------------------------------------------------------------
(* The inputs: athlete names, the rankings list and the profile pages.     *)

\* the i-th athlete name: two words, "Ko Aa", "Ko Bb", ...
Name(i) == <<"K", "o", " ", UpperCase[i], LowerCase[i]>>

Names == {Name(i) : i \in 1..NumNames}

\* the file name a photo of the athlete carries: "ko-aa-1.png"
Slug(name) == [i \in DOMAIN name |-> IF name[i] = " " THEN "-" ELSE LowerChar(name[i])]
PhotoOf(name) == <<"/", "i", "/">> \o Slug(name) \o <<"-", "1", ".", "p", "n", "g">>
GroupPhoto == <<"/", "i", "/", "k", "o", ".", "p", "n", "g">>
ProfileOf(name) == <<"/", "a", "/">> \o Slug(name)

LW == <<"L", "W">>
HW == <<"H", "W">>

\* one entry of the list scrape_rankings returns
Entry(name, division, rank, url) ==
    [Name |-> name, Division |-> division, Rank |-> rank, Profile_URL |-> url]

\* a champion with a profile link, and a ranked row whose link has no href
Entries ==
    UNION {{Entry(n, LW, <<"C">>, ProfileOf(n)),
            Entry(n, HW, <<"1">>, None)} : n \in Names}

\* the lists scrape_rankings can return; [] when the page could not be fetched or parsed
Rosters == UNION {[1..k -> Entries] : k \in 0..MaxRoster}

StatKeys == {"Record", "SLpM", "SApM", "TD_Avg", "Sub_Avg", "Fight_Time"}

\* a fetched profile page: the text content under each stat XPath (None when the
\* XPath selects nothing) and the two image slots (None when the slot is absent)
Page(record, slpm, sapm, td, sub, ft, a, b) ==
    [kind |-> "page",
     text |-> [Record |-> record, SLpM |-> slpm, SApM |-> sapm, TD_Avg |-> td,
               Sub_Avg |-> sub, Fight_Time |-> ft],
     slot_a |-> a, slot_b |-> b]

RecordText == <<" ", "9", "-", "1", "-", "0", " ">>
RateText == <<"4", ".", "5">>
TimeText == <<"1", "2", ":", "3", "4">>

\* what requests.get and html.fromstring can give for a profile URL
ResponseKinds == {"http_error", "parse_error", "own_photo", "group_photo", "partial", "blank"}

Response(name, kind) ==
    CASE kind = "http_error" -> [kind |-> "http_error"]
      [] kind = "parse_error" -> [kind |-> "parse_error"]
      \* every stat present, the athlete's own photo in slot B
      [] kind = "own_photo" ->
           Page(RecordText, RateText, RateText, RateText, RateText, TimeText,
                GroupPhoto, PhotoOf(name))
      \* every stat present, no slot shows the athlete
      [] kind = "group_photo" ->
           Page(RecordText, RateText, RateText, RateText, RateText, TimeText,
                GroupPhoto, None)
      \* no record line, one rate, an unparsable fight time, own photo in slot A
      [] kind = "partial" ->
           Page(<<" ">>, RateText, Dash, None, None, <<"b", "a", "d">>,
                PhotoOf(name), GroupPhoto)
      \* no stat at all and no image
      [] kind = "blank" ->
           Page(None, None, Dash, <<>>, None, None, None, None)

-----------------------------------------------------------------------------
(* Fighter stats scraper.                                                  *)

\* scrape_fighter_image
scrape_fighter_image(page, fighter_name) ==
    LET a_url == page.slot_a
        b_url == page.slot_b
    IN IF filename_matches_fighter(a_url, fighter_name) THEN a_url
       ELSE IF filename_matches_fighter(b_url, fighter_name) THEN b_url
       ELSE IF Truthy(a_url) THEN a_url ELSE NA

\* xp_text: "N/A" when the XPath selects nothing, else the stripped text content
xp_text(page, key) == IF page.text[key] = None THEN NA ELSE Strip(page.text[key])

\* the values the filter of scrape_fighter_stats drops
Useless == {None, EmptyStr, NA, Dash}

\* the threshold of scrape_fighter_stats: more than this many keys must survive
MinKeys == 2

\* final_stats of scrape_fighter_stats for a parsed page
final_stats(name, profile_url, page) ==
    LET picture_url == scrape_fighter_image(page, name)
        strs == [k \in {"Name", "Profile_URL", "Picture_URL"} \cup StatKeys |->
                    CASE k = "Name" -> name
                      [] k = "Profile_URL" -> profile_url
                      [] k = "Picture_URL" -> picture_url
                      [] OTHER -> xp_text(page, k)]
        \* the comprehension keeps a key unless its value is None, "", "N/A" or "-";
        \* Fight_Time_Seconds is an int, which equals none of the four (0 included)
        kept == {k \in DOMAIN strs : strs[k] \notin Useless}
    IN [k \in kept \cup {"Fight_Time_Seconds", "Name", "Picture_URL"} |->
           CASE k = "Fight_Time_Seconds" -> time_to_seconds(strs["Fight_Time"])
             [] k = "Name" -> name
             [] k = "Picture_URL" -> picture_url
             [] OTHER -> strs[k]]

\* scrape_fighter_stats: the stats dict, or None
scrape_fighter_stats(name, profile_url, response) ==
    IF ~Truthy(profile_url) THEN None
    ELSE IF response.kind = "http_error" THEN None
    ELSE IF response.kind = "parse_error" THEN None
    ELSE LET fs == final_stats(name, profile_url, response)
         IN IF Cardinality(DOMAIN fs) > MinKeys THEN fs ELSE None

\* a page on which none of the six stats is a real value
NoRealStat(response) ==
    /\ response.kind = "page"
    /\ \A k \in StatKeys : xp_text(response, k) \in Useless

-----------------------------------------------------------------------------
(* The two pure functions above, tabulated once over the values the model  *)
(* can hand them (TLC evaluates a constant definition a single time).      *)

PoolNames == {Name(i) : i \in 1..LongPool} \cup Names

\* the values a stored Picture_URL can have
PictureURLs == {None, NA, GroupPhoto} \cup {PhotoOf(n) : n \in PoolNames}

MatchTable == [url \in PictureURLs, name \in PoolNames |-> filename_matches_fighter(url, name)]

ScrapeTable ==
    [name \in Names, kind \in ResponseKinds |->
        scrape_fighter_stats(name, ProfileOf(name), Response(name, kind))]

NoRealStatTable == [name \in Names, kind \in ResponseKinds |-> NoRealStat(Response(name, kind))]

-----------------------------------------------------------------------------
(* Game logic: the repository merge.                                       *)

\* fighter_index of scrape_all_ranked_fighters_into_data: its keys in insertion
\* order (a name keeps the place of its first entry) ...
RECURSIVE IndexNames(_)
IndexNames(fighters) ==
    IF fighters = <<>> THEN <<>>
    ELSE LET init == IndexNames(SubSeq(fighters, 1, Len(fighters) - 1))
             name == fighters[Len(fighters)].Name
         IN IF name \in Range(init) THEN init ELSE Append(init, name)

\* ... and its values (the last entry of a name wins)
IndexInfo(fighters, name) ==
    LET k == CHOOSE i \in DOMAIN fighters :
                 /\ fighters[i].Name = name
                 /\ \A j \in (i+1)..Len(fighters) : fighters[j].Name # name
    IN fighters[k]

\* fighter_index as a dict
FighterIndex(fighters) ==
    [name \in Range(IndexNames(fighters)) |-> IndexInfo(fighters, name)]

\* game_data["fighter_data"].get(name)
Existing(fd, name) == IF name \in DOMAIN fd THEN fd[name] ELSE None

\* should_rescrape
should_rescrape(existing, name) ==
    \/ ~Truthy(existing)
    \/ ~Truthy(Get(existing, "Record"))
    \/ ~Truthy(Get(existing, "Picture_URL"))
    \/ ~MatchTable[Get(existing, "Picture_URL"), name]

\* a skip branch that rebuilds the record from the ranking entry alone
Refreshed_from_entry(existing, info) ==
    [Name |-> info.Name, Division |-> info.Division, Rank |-> info.Rank,
     Profile_URL |-> info.Profile_URL]

\* the record the skip branch leaves: Division, Rank and Profile_URL refreshed in place
Refreshed(existing, info) ==
    Update(existing, [Division |-> info.Division, Rank |-> info.Rank,
                      Profile_URL |-> info.Profile_URL])

\* the record the rescrape branch stores on success
Scraped(stats, info) == Update(stats, [Division |-> info.Division, Rank |-> info.Rank])

\* scrape_fighter_stats(name, profile_url) when the fetch of profile_url ends as kind
\* (a ranking entry's profile URL, when it has one, is ProfileOf(name))
Stats(name, profile_url, kind) ==
    IF ~Truthy(profile_url) THEN None ELSE ScrapeTable[name, kind]

\* one iteration of the loop over fighter_index.items()
MergeEntry(fd, name, info, kind) ==
    LET existing == Existing(fd, name)
    IN IF ~should_rescrape(existing, name)
       THEN Store(fd, name, Refreshed(existing, info))
       ELSE LET stats == Stats(name, info.Profile_URL, kind)
            IN IF Truthy(stats)
               THEN Store(fd, name, Scraped(stats, info))
               ELSE fd

\* the loop of scrape_all_ranked_fighters_into_data over the names in index order;
\* kinds[name] is how the fetch of the name's profile ends, when there is one
RECURSIVE MergeLoop(_, _, _, _)
MergeLoop(fd, names, index, kinds) ==
    IF names = <<>> THEN fd
    ELSE LET name == Head(names)
         IN MergeLoop(MergeEntry(fd, name, index[name],
                                 IF name \in DOMAIN kinds THEN kinds[name] ELSE "none"),
                      Tail(names), index, kinds)

\* the names of the index that take the rescrape branch
RescrapeNames(fd, index) ==
    {n \in DOMAIN index : should_rescrape(Existing(fd, n), n)}

\* the names whose profile the run fetches: a rescrape with a profile URL
FetchNames(fd, index) ==
    {n \in RescrapeNames(fd, index) : Truthy(index[n].Profile_URL)}

\* the observation a load leaves; the other operations fill in their part
NoOp == [op |-> "load", index |-> <<>>, rescrape |-> {}, failed |-> {}, nostat |-> {},
         chose |-> FALSE, amnesty |-> FALSE, chosen |-> None, prev |-> None,
         evicted |-> FALSE]

\* scrape_all_ranked_fighters_into_data, for the list scrape_rankings returned
\* and the responses of the profile fetches
scrape_all_ranked_fighters_into_data ==
    \E fighters \in Rosters :
      LET index == FighterIndex(fighters)
          rescrape == RescrapeNames(fighterData, index)
      IN \E kinds \in [FetchNames(fighterData, index) -> ResponseKinds] :
           LET new == MergeLoop(fighterData, IndexNames(fighters), index, kinds)
               failed == {n \in rescrape :
                            n \notin DOMAIN kinds \/ ~Truthy(ScrapeTable[n, kinds[n]])}
               daily == Get(dailyFighter, "Name")
           IN /\ fighterData' = new
              \* daily_fighter is the dict select_daily_fighter took out of fighter_data:
              \* the in-place update of the skip branch shows through it, and a
              \* replacement by the rescrape branch leaves it the old dict
              /\ dailyFighter' = IF dailyShared /\ daily \in (DOMAIN index) \ rescrape
                                 THEN new[daily] ELSE dailyFighter
              /\ dailyShared' = (dailyShared /\ ~(daily \in rescrape \ failed))
              /\ calls' = 0
              /\ last' = [NoOp EXCEPT !.op = "merge",
                                      !.index = index,
                                      !.rescrape = rescrape,
                                      !.failed = failed,
                                      !.nostat = {n \in DOMAIN kinds :
                                                     NoRealStatTable[n, kinds[n]]}]
              /\ UNCHANGED pastFighters

-----------------------------------------------------------------------------
(* Game logic: the rotation.                                               *)

\* the value datetime.utcnow().isoformat() + "Z" gives (one abstract instant)
Now == <<"t", "Z">>

\* an eligibility test that forgets the Record
Available_any_record(fd, past) == {name \in DOMAIN fd : name \notin past}

\* the names with a Record that are not in past
Available(fd, past) ==
    {name \in DOMAIN fd : name \notin past /\ Truthy(Get(fd[name], "Record"))}

\* a slice that keeps the whole list
LastN_whole(lst, n) == lst

\* lst[-n:]
LastN(lst, n) == IF Len(lst) <= n THEN lst ELSE SubSeq(lst, Len(lst) - n + 1, Len(lst))

\* a truncation that keeps the oldest entries, lst[:n]
NewPast_keeps_oldest(past_list, past, prev_name) ==
    LET lst == IF Truthy(prev_name) /\ prev_name \notin past
               THEN Append(past_list, prev_name) ELSE past_list
    IN IF Len(lst) <= PAST_DAYS_LIMIT THEN lst ELSE SubSeq(lst, 1, PAST_DAYS_LIMIT)

\* the past list after a pick: the previous daily fighter appended, then truncated
NewPast(past_list, past, prev_name) ==
    LastN(IF Truthy(prev_name) /\ prev_name \notin past
          THEN Append(past_list, prev_name) ELSE past_list,
          PAST_DAYS_LIMIT)

\* whether the first computation of available sends the call into the reset branch
NeedsReset(fd, past_list) == Available(fd, Range(past_list)) = {} /\ fd # EmptyDict

\* a reset branch that leaves the list alone
PastAtChoice_no_reset(fd, past_list) == past_list

\* game_data["past_fighters"] when the choice is made
PastAtChoice(fd, past_list) == IF NeedsReset(fd, past_list) THEN <<>> ELSE past_list

\* select_daily_fighter
select_daily_fighter ==
    LET reset == NeedsReset(fighterData, pastFighters)
        past_list == PastAtChoice(fighterData, pastFighters)
        available == Available(fighterData, Range(past_list))
        prev_name == Get(dailyFighter, "Name")
        count == IF calls < MaxCalls THEN calls + 1 ELSE calls
    IN IF fighterData = EmptyDict \/ available = {}
       THEN \* both early returns; the second one comes after the reset
            /\ pastFighters' = past_list
            /\ calls' = count
            /\ last' = [NoOp EXCEPT !.op = "select", !.amnesty = reset, !.prev = prev_name]
            /\ UNCHANGED <<dailyFighter, fighterData, dailyShared>>
       ELSE \E chosen_name \in available :
              LET chosen_data == Update(fighterData[chosen_name], [Selected_Date |-> Now])
              IN /\ pastFighters' = NewPast(past_list, Range(past_list), prev_name)
                 \* chosen_data is the dict stored in fighter_data: the stamp is set on both
                 /\ fighterData' = Store(fighterData, chosen_name, chosen_data)
                 /\ dailyFighter' = chosen_data
                 /\ dailyShared' = TRUE
                 /\ calls' = count
                 /\ last' = [NoOp EXCEPT !.op = "select", !.chose = TRUE, !.amnesty = reset,
                                         !.chosen = chosen_name, !.prev = prev_name,
                                         !.evicted = (Truthy(prev_name)
                                                      /\ prev_name \notin Range(past_list)
                                                      /\ Len(past_list) = PAST_DAYS_LIMIT)]

-----------------------------------------------------------------------------
(* The entry point: one run ends with save_game_data, the next starts with *)
(* load_game_data.                                                         *)

\* save_game_data then load_game_data: the JSON text holds daily_fighter and the
\* fighter_data entry as two objects, so the loaded dicts are no longer shared
save_and_load ==
    /\ dailyShared' = FALSE
    /\ calls' = 0
    /\ last' = NoOp
    /\ UNCHANGED <<dailyFighter, pastFighters, fighterData>>

-----------------------------------------------------------------------------
(* Specifications.                                                         *)

\* load_game_data when no file exists
Init ==
    /\ dailyFighter = EmptyDict
    /\ pastFighters = <<>>
    /\ fighterData = EmptyDict
    /\ dailyShared = FALSE
    /\ calls = 0
    /\ last = NoOp

Next ==
    \/ scrape_all_ranked_fighters_into_data
    \/ select_daily_fighter
    \/ save_and_load

Spec == Init /\ [][Next]_vars

\* a complete record as a successful scrape stores it
CompleteRecord(name) ==
    Scraped(scrape_fighter_stats(name, ProfileOf(name), Response(name, "own_photo")),
            Entry(name, LW, <<"C">>, ProfileOf(name)))

PoolOf(n) == [name \in {Name(i) : i \in 1..n} |-> CompleteRecord(name)]

\* the state after the first merge stored a pool of eligible athletes:
\* three of them, or more than the history holds
InitRotation ==
    /\ dailyFighter = EmptyDict
    /\ pastFighters = <<>>
    /\ fighterData \in {PoolOf(3), PoolOf(LongPool)}
    /\ dailyShared = FALSE
    /\ calls = 0
    /\ last = NoOp

NextRotation == select_daily_fighter

SpecRotation == InitRotation /\ [][NextRotation]_vars

-----------------------------------------------------------------------------
(* Properties.                                                             *)

HasRecord(fd, name) == Truthy(Get(fd[name], "Record"))

\* the athletes select_daily_fighter has stamped: under SpecRotation, where no
\* merge replaces a record, exactly the names picked so far
Picked == {n \in DOMAIN fighterData : "Selected_Date" \in DOMAIN fighterData[n]}

NoDuplicates(lst) == \A i, j \in DOMAIN lst : i # j => lst[i] # lst[j]

SelectStep == last'.op = "select"
MergeStep == last'.op = "merge"

\* C1: with three eligible athletes and an empty history, the first three
\* consecutive calls of select_daily_fighter pick three pairwise distinct names
\* (after k <= 3 calls, k different athletes have been picked).
C1_FirstPicksDistinct ==
    (Cardinality(DOMAIN fighterData) = 3 /\ calls <= 3) => Cardinality(Picked) = calls

\* C2: with three eligible athletes, an empty history and three distinct first picks,
\* the fourth call takes the reset branch.
C2_FourthCallResets ==
    [][(/\ Cardinality(DOMAIN fighterData) = 3
        /\ calls = 3 /\ Cardinality(Picked) = 3
        /\ SelectStep /\ calls' = 4) => last'.amnesty]_vars

\* C3: a call of select_daily_fighter that chooses nobody leaves dailyFighter,
\* pastFighters and fighterData as they were.
C3_NoPickNoChange ==
    [][(SelectStep /\ ~last'.chose) =>
          /\ dailyFighter' = dailyFighter
          /\ pastFighters' = pastFighters
          /\ fighterData' = fighterData]_vars

\* C4: pastFighters never holds more than PAST_DAYS_LIMIT names and never holds a
\* name twice.
C4_HistoryBounded ==
    /\ Len(pastFighters) <= PAST_DAYS_LIMIT
    /\ NoDuplicates(pastFighters)

\* C4 witness: a pick appended the previous daily fighter to a full history, so the
\* oldest name was evicted.
C4_Witness ==
    /\ last.op = "select" /\ last.evicted
    /\ Len(pastFighters) = PAST_DAYS_LIMIT

\* every name of fighterData is in pastFighters and some record has a Record
Exhausted ==
    /\ DOMAIN fighterData \subseteq Range(pastFighters)
    /\ \E n \in DOMAIN fighterData : HasRecord(fighterData, n)

\* C5: when every name of fighterData is in pastFighters and some record has a
\* Record, every athlete with a Record is a possible choice of the next call, and
\* the call picks one of them, installs it as dailyFighter and keeps nothing of the
\* old history (the new history is the previous daily fighter alone).
C5_ExhaustionResets ==
    [][Exhausted =>
         /\ \A n \in DOMAIN fighterData :
               HasRecord(fighterData, n) =>
                  n \in Available(fighterData, Range(PastAtChoice(fighterData, pastFighters)))
         /\ SelectStep =>
               /\ last'.chose /\ last'.amnesty
               /\ HasRecord(fighterData, last'.chosen)
               /\ Get(dailyFighter', "Name") = last'.chosen
               /\ pastFighters' = IF Truthy(Get(dailyFighter, "Name"))
                                  THEN <<Get(dailyFighter, "Name")>> ELSE <<>>]_vars

\* C5 witness: a call reset the history and picked, in a pool where every athlete
\* has a Record (so every name was in the history before the call).
C5_Witness ==
    /\ last.op = "select" /\ last.amnesty /\ last.chose
    /\ \A n \in DOMAIN fighterData : HasRecord(fighterData, n)
    /\ Cardinality(DOMAIN fighterData) > 1

\* a stored record with a Record and a Picture_URL that matches the name
Complete(fd, name) ==
    /\ name \in DOMAIN fd
    /\ Truthy(Get(fd[name], "Record"))
    /\ Truthy(Get(fd[name], "Picture_URL"))
    /\ MatchTable[Get(fd[name], "Picture_URL"), name]

RefreshedKeys == {"Division", "Rank", "Profile_URL"}

\* C6: a merge run does not rescrape a name of the rankings list whose stored
\* record is complete and changes no key of that record other than Division, Rank
\* and Profile_URL; a second run with the same rankings list, however its fetches
\* end, leaves that record as the first run left it.
C6_CompleteRecordsKept ==
    [][MergeStep =>
          \A n \in DOMAIN last'.index :
             Complete(fighterData, n) =>
                /\ n \notin last'.rescrape
                /\ DOMAIN fighterData'[n] \ RefreshedKeys = DOMAIN fighterData[n] \ RefreshedKeys
                /\ \A k \in DOMAIN fighterData[n] \ RefreshedKeys :
                      fighterData'[n][k] = fighterData[n][k]
                /\ \A kinds \in [FetchNames(fighterData', last'.index) -> ResponseKinds] :
                   \A names \in {s \in [1..Cardinality(DOMAIN last'.index) -> DOMAIN last'.index] :
                                    Range(s) = DOMAIN last'.index} :
                      MergeLoop(fighterData', names, last'.index, kinds)[n] = fighterData'[n]]_vars

\* C6 witness: a merge run took the skip branch for a stored record and moved it to
\* another division.
C6_Witness ==
    /\ last.op = "merge"
    /\ \E n \in (DOMAIN last.index) \ last.rescrape :
          /\ Complete(fighterData, n)
          /\ fighterData[n]["Division"] = HW
          /\ "Selected_Date" \in DOMAIN fighterData[n]

\* C7: every record the merge stores holds one of the six stats (an extraction in
\* which Record, SLpM, SApM, TD_Avg, Sub_Avg and Fight_Time all resolve to the
\* sentinel returns nothing).
C7_StoredRecordHasStat ==
    \A n \in DOMAIN fighterData : DOMAIN fighterData[n] \cap StatKeys # {}

\* C8: a rescrape whose extraction fails (no profile URL, fetch error, parse error,
\* or no real stat on the page) leaves fighterData[name] exactly as it was, and an
\* absent name absent.
C8_FailedRescrapeKeepsRecord ==
    [][MergeStep =>
          \A n \in last'.failed \cup last'.nostat :
             Existing(fighterData', n) = Existing(fighterData, n)]_vars

\* C9: the athlete a call installs as dailyFighter is a key of fighterData with a
\* non-empty Record whose name is not in pastFighters as it stands when the choice
\* is made (empty after a reset).
C9_PickIsEligible ==
    [][(SelectStep /\ last'.chose) =>
          /\ last'.chosen \in DOMAIN fighterData
          /\ Truthy(Get(fighterData[last'.chosen], "Record"))
          /\ last'.chosen \notin (IF last'.amnesty THEN {} ELSE Range(pastFighters))
          /\ Get(dailyFighter', "Name") = last'.chosen
          /\ Truthy(Get(dailyFighter', "Record"))]_vars

\* C9 witness: a call picked while an athlete without a Record was outside the
\* history.
C9_Witness ==
    /\ last.op = "select" /\ last.chose
    /\ \E n \in DOMAIN fighterData :
          /\ ~HasRecord(fighterData, n)
          /\ n \notin Range(pastFighters)
          /\ n # last.prev

\* C10: in a call that picks, the previous daily fighter p ends up in pastFighters,
\* and the new pastFighters is the last PAST_DAYS_LIMIT entries of the history as
\* it stood at the choice with p appended unless already in it; the pick replaces
\* dailyFighter after p was read.
C10_PreviousAppendedThenCut ==
    [][(SelectStep /\ last'.chose /\ Truthy(Get(dailyFighter, "Name"))) =>
          LET p == Get(dailyFighter, "Name")
              base == IF last'.amnesty THEN <<>> ELSE pastFighters
              full == IF p \in Range(base) THEN base ELSE base \o <<p>>
              drop == IF Len(full) > PAST_DAYS_LIMIT THEN Len(full) - PAST_DAYS_LIMIT ELSE 0
          IN /\ p \in Range(pastFighters')
             /\ Len(pastFighters') = Len(full) - drop
             /\ \A i \in DOMAIN pastFighters' : pastFighters'[i] = full[i + drop]
             /\ Get(dailyFighter', "Name") = last'.chosen]_vars

\* C10 witness: a pick appended the previous daily fighter, who is now the newest
\* entry, and the oldest entry was evicted.
C10_Witness ==
    /\ last.op = "select" /\ last.chose /\ last.evicted
    /\ pastFighters[Len(pastFighters)] = last.prev
    /\ Get(dailyFighter, "Name") = last.chosen

=============================================================================
